---- MODULE Spec2Model ----
(***************************************************************************)
(* Model of scripts/generate-launch-config.js: one invocation of the tool  *)
(* (read package.json, filter the scripts, back up and load                *)
(* .vscode/launch.json, merge, confirm once, write), and a second          *)
(* invocation with the same arguments and manifest.                        *)
(*                                                                         *)
(* Strings are TLA+ strings.  File contents are bytes: in a file the token *)
(* "<E9>" stands for the single byte 0xE9, which is not valid UTF-8, and   *)
(* "<EF><BF><BD>" for the three bytes that encode U+FFFD; in a JavaScript  *)
(* string the token "<U+FFFD>" stands for the character U+FFFD.  The JSON  *)
(* syntax layer is abstracted to the kinds of text that JSON.parse and the *)
(* code after it tell apart.                                               *)
(***************************************************************************)
EXTENDS Integers, Sequences, FiniteSets, TLC

\* ------------------------------------------------------------------ bounds
MaxScripts == 2
MaxExisting == 2

\* ------------------------------------------------------------- input pools
ScriptNames == {"dev", "predev", "Generate-launch", "dev:generate-launch"}

Argvs ==
  { <<>>,
    <<"--yes">>,
    <<"--filter", "dev">>,
    <<"--filter", "dev", "--yes">>,
    <<"--manager", "yarn">>,
    <<"--manager", "yarn", "--yes">> }

RECURSIVE SeqsUpTo(_, _)
SeqsUpTo(S, n) ==
  IF n = 0 THEN { <<>> }
  ELSE LET shorter == SeqsUpTo(S, n - 1)
       IN  shorter \cup { Append(s, x) : s \in shorter, x \in S }

Range(s) == { s[i] : i \in 1..Len(s) }
Distinct(s) == \A i, j \in 1..Len(s) : s[i] = s[j] => i = j

\* package.json: absent, or the keys of its "scripts" mapping in insertion order
\* (the keys of a JSON object are distinct).
NoPackageJson == [exists |-> FALSE, scripts |-> <<>>]
Manifests ==
  { NoPackageJson } \cup
  { [exists |-> TRUE, scripts |-> s] : s \in { q \in SeqsUpTo(ScriptNames, MaxScripts) : Distinct(q) } }

\* Entries a user may have in launch.json.
UserEntry(name, request, exe, arg) ==
  [ type |-> "node", request |-> request, name |-> name,
    runtimeExecutable |-> exe, runtimeArgs |-> <<arg>>,
    console |-> "internalConsole", internalConsoleOptions |-> "openOnSessionStart",
    skipFiles |-> <<>> ]

UserEntries ==
  { UserEntry("npm: dev", "launch", "npm", "start"),
    UserEntry("npm: dev", "attach", "node", "caf<E9>.js"),
    UserEntry("npm: predev", "launch", "npm", "lint"),
    UserEntry("npm: dev:generate-launch", "launch", "npm", "self") }

\* launch.json: absent, or a text of one of these kinds:
\*   "notJSON"    not JSON at all (comments, truncated text, a byte order mark)
\*   "null"       the JSON text null
\*   "scalar"     a JSON number, string, boolean or array
\*   "badConfigs" a JSON object whose "configurations" is a non-array such as {} or 5
\*   "record"     a JSON object with a "configurations" array (possibly other keys)
\* A text also has its layout ("indent"), which parsing drops.
NoFile == [kind |-> "absent", indent |-> "", version |-> "", configurations |-> <<>>]
Text(kind) == [kind |-> kind, indent |-> "", version |-> "", configurations |-> <<>>]
LaunchFiles ==
  { NoFile, Text("notJSON"), Text("null"), Text("scalar"), Text("badConfigs") } \cup
  { [kind |-> "record", indent |-> "  ", version |-> "0.2.0", configurations |-> c] :
      c \in SeqsUpTo(UserEntries, MaxExisting) } \cup
  { [kind |-> "record", indent |-> "    ", version |-> "0.1.0",
     configurations |-> << UserEntry("npm: dev", "launch", "npm", "start") >>] }

\* Lines typed at the prompt.
Answers == {"y", " Y ", "n", "yes", ""}

VARIABLES
  args,               \* process.argv.slice(2)
  packageJson,        \* package.json on disk
  launchJson,         \* .vscode/launch.json on disk (bytes)
  vscodeDir,          \* whether .vscode exists
  backup,             \* the file at this run's backup path (bytes)
  pc,                 \* position of the script
  scripts,            \* the filtered script names
  originalContent,    \* the text read from launch.json
  existingLaunchJson, \* the parsed launch.json
  configMap,          \* Map name -> config, in insertion order
  newConfigs,         \* names added
  configsToOverwrite, \* [name, config] pairs awaiting confirmation
  overwriteConfirmed,
  asked,              \* questions put to the terminal in this run
  warned,             \* the "Could not parse" warning was printed in this run
  writes,             \* writes of launch.json in this run
  haltedAt,           \* where an interrupt hit
  run,                \* "first" or "second" invocation
  preRun,             \* launch.json as it was when this run started
  firstResult         \* launch.json as the first run left it

vars ==
  << args, packageJson, launchJson, vscodeDir, backup, pc, scripts, originalContent,
     existingLaunchJson, configMap, newConfigs, configsToOverwrite, overwriteConfirmed,
     asked, warned, writes, haltedAt, run, preRun, firstResult >>

\* ------------------------------------------------------------ JS built-ins
\* String.prototype.includes
includes(s, sub) ==
  \E i \in 1..(Len(s) - Len(sub) + 1) : SubSeq(s, i, i + Len(sub) - 1) = sub

\* String.prototype.startsWith
startsWith(s, prefix) ==
  Len(prefix) <= Len(s) /\ SubSeq(s, 1, Len(prefix)) = prefix

\* String.prototype.trim, for the white space a typed line can carry
RECURSIVE trimStart(_)
trimStart(s) ==
  IF Len(s) > 0 /\ SubSeq(s, 1, 1) = " " THEN trimStart(SubSeq(s, 2, Len(s))) ELSE s

RECURSIVE trimEnd(_)
trimEnd(s) ==
  IF Len(s) > 0 /\ SubSeq(s, Len(s), Len(s)) = " "
  THEN trimEnd(SubSeq(s, 1, Len(s) - 1)) ELSE s

trim(s) == trimEnd(trimStart(s))

\* String.prototype.toLowerCase, on the letters the answers are typed with
lowerChar(c) ==
  CASE c = "Y" -> "y" [] c = "E" -> "e" [] c = "S" -> "s"
    [] c = "N" -> "n" [] c = "O" -> "o" [] OTHER -> c

RECURSIVE toLowerCase(_)
toLowerCase(s) ==
  IF Len(s) = 0 THEN s
  ELSE lowerChar(SubSeq(s, 1, 1)) \o toLowerCase(SubSeq(s, 2, Len(s)))

\* Array.prototype.indexOf, 1-based; 0 stands for JavaScript's -1
indexOf(a, x) ==
  IF \E i \in 1..Len(a) : a[i] = x
  THEN CHOOSE i \in 1..Len(a) : a[i] = x /\ \A j \in 1..(i - 1) : a[j] # x
  ELSE 0

\* Decoding bytes as UTF-8 (fs.readFileSync(path, 'utf-8')): EF BF BD is U+FFFD,
\* and every byte that is not part of a valid sequence becomes U+FFFD as well.
\* All other bytes of the model are ASCII and decode to themselves.
RECURSIVE utf8DecodeFrom(_)
utf8DecodeFrom(bytes) ==
  IF Len(bytes) = 0 THEN bytes
  ELSE IF startsWith(bytes, "<EF><BF><BD>")
       THEN "<U+FFFD>" \o utf8DecodeFrom(SubSeq(bytes, 13, Len(bytes)))
  ELSE IF startsWith(bytes, "<E9>")
       THEN "<U+FFFD>" \o utf8DecodeFrom(SubSeq(bytes, 5, Len(bytes)))
  ELSE SubSeq(bytes, 1, 1) \o utf8DecodeFrom(SubSeq(bytes, 2, Len(bytes)))

utf8Decode(bytes) == IF includes(bytes, "<E") THEN utf8DecodeFrom(bytes) ELSE bytes

\* Encoding a string as UTF-8 (fs.writeFileSync(path, string)): U+FFFD becomes
\* EF BF BD, ASCII characters are their own encoding.
RECURSIVE utf8EncodeFrom(_)
utf8EncodeFrom(str) ==
  IF Len(str) = 0 THEN str
  ELSE IF startsWith(str, "<U+FFFD>")
       THEN "<EF><BF><BD>" \o utf8EncodeFrom(SubSeq(str, 9, Len(str)))
  ELSE SubSeq(str, 1, 1) \o utf8EncodeFrom(SubSeq(str, 2, Len(str)))

utf8Encode(str) == IF includes(str, "<U") THEN utf8EncodeFrom(str) ELSE str

\* ------------------------------------------------------ CLI argument parsing
getArg(flag, fallback) ==
  LET index == indexOf(args, flag)
  IN  IF index # 0 /\ index + 1 <= Len(args) /\ args[index + 1] # ""
      THEN args[index + 1] ELSE fallback

hasFlag(flag) == \E i \in 1..Len(args) : args[i] = flag

packageManager == getArg("--manager", "npm")
filterPrefix == getArg("--filter", "")
autoYes == hasFlag("--yes")

\* ------------------------------------------------------------ file access
launchJsonPath == ".vscode/launch.json"

\* Faulty variant of getTimestampedBackupPath: the path of launch.json itself.
getTimestampedBackupPath_live == ".vscode/launch.json"

\* .vscode/launch.backup.<ISO timestamp with : and . replaced by ->.json
getTimestampedBackupPath == ".vscode/launch.backup.<timestamp>.json"

\* What the file at `path` holds after fs.writeFileSync(target, bytes), when it
\* held `old` before.
fileAfterWrite(path, old, target, bytes) == IF path = target THEN bytes ELSE old

decodeEntry(e) ==
  [ type |-> utf8Decode(e.type), request |-> utf8Decode(e.request),
    name |-> utf8Decode(e.name), runtimeExecutable |-> utf8Decode(e.runtimeExecutable),
    runtimeArgs |-> [i \in 1..Len(e.runtimeArgs) |-> utf8Decode(e.runtimeArgs[i])],
    console |-> utf8Decode(e.console),
    internalConsoleOptions |-> utf8Decode(e.internalConsoleOptions),
    skipFiles |-> [i \in 1..Len(e.skipFiles) |-> utf8Decode(e.skipFiles[i])] ]

encodeEntry(e) ==
  [ type |-> utf8Encode(e.type), request |-> utf8Encode(e.request),
    name |-> utf8Encode(e.name), runtimeExecutable |-> utf8Encode(e.runtimeExecutable),
    runtimeArgs |-> [i \in 1..Len(e.runtimeArgs) |-> utf8Encode(e.runtimeArgs[i])],
    console |-> utf8Encode(e.console),
    internalConsoleOptions |-> utf8Encode(e.internalConsoleOptions),
    skipFiles |-> [i \in 1..Len(e.skipFiles) |-> utf8Encode(e.skipFiles[i])] ]

\* fs.readFileSync(path, 'utf-8') of an existing file: its bytes, decoded
readFileSync(file) ==
  [ file EXCEPT !.version = utf8Decode(file.version),
                !.configurations =
                  [i \in 1..Len(file.configurations) |-> decodeEntry(file.configurations[i])] ]

\* fs.writeFileSync(path, text): the bytes that end up in the file
writeFileSync(text) ==
  [ text EXCEPT !.version = utf8Encode(text.version),
                !.configurations =
                  [i \in 1..Len(text.configurations) |-> encodeEntry(text.configurations[i])] ]

\* ------------------------------------------------------------------- JSON
\* JSON.parse throws a SyntaxError on a text that is not JSON.
JSONparseThrows(text) == text.kind = "notJSON"

\* The value JSON.parse returns otherwise.  confs says what its "configurations"
\* property is: "undefined" (no such property, or the value is no object),
\* "array", or "other" (a truthy non-array).
JSONparse(text) ==
  [ type |-> CASE text.kind = "null" -> "null"
               [] text.kind = "scalar" -> "scalar"
               [] OTHER -> "object",
    version |-> text.version,
    confs |-> CASE text.kind = "record" -> "array"
                [] text.kind = "badConfigs" -> "other"
                [] OTHER -> "undefined",
    configurations |-> text.configurations ]

\* JSON.stringify(mergedLaunchJson, null, 2)
JSONstringify(obj) ==
  [ kind |-> "record", indent |-> "  ", version |-> obj.version,
    configurations |-> obj.configurations ]

\* ------------------------------------------------------------------- Map
\* A JavaScript Map is a sequence of [key, value] records in insertion order.
\* Faulty variant of MapHas: no key is ever found.
MapHas_never(m, k) == FALSE

MapHas(m, k) == \E i \in 1..Len(m) : m[i].key = k

MapGet(m, k) == m[CHOOSE i \in 1..Len(m) : m[i].key = k].value

\* Faulty variant of MapSet: a present key is deleted and added again at the end.
MapSet_moveToEnd(m, k, v) ==
  Append(SelectSeq(m, LAMBDA p : p.key # k), [key |-> k, value |-> v])

\* Map.prototype.set: a present key keeps its position and gets the new value
MapSet(m, k, v) ==
  IF MapHas(m, k)
  THEN [i \in 1..Len(m) |-> IF m[i].key = k THEN [key |-> k, value |-> v] ELSE m[i]]
  ELSE Append(m, [key |-> k, value |-> v])

\* Faulty variant of MapFromEntries: a plain list of pairs, nothing keyed.
MapFromEntries_list(m, cfgs) ==
  m \o [i \in 1..Len(cfgs) |-> [key |-> cfgs[i].name, value |-> cfgs[i]]]

\* new Map(existingConfigs.map((cfg) => [cfg.name, cfg]))
RECURSIVE MapFromEntries(_, _)
MapFromEntries(m, cfgs) ==
  IF cfgs = <<>> THEN m
  ELSE MapFromEntries(MapSet(m, Head(cfgs).name, Head(cfgs)), Tail(cfgs))

\* Array.from(configMap.values())
MapValues(m) == [i \in 1..Len(m) |-> m[i].value]

\* ------------------------------------------------------- script execution
\* Faulty variant of excludeSelf: only names that begin with the text are removed.
excludeSelf_prefixOnly(names) ==
  SelectSeq(names, LAMBDA name : ~startsWith(name, "generate-launch"))

\* Remove any scripts that include "generate-launch" anywhere in their name
excludeSelf(names) ==
  SelectSeq(names, LAMBDA name : ~includes(name, "generate-launch"))

\* Faulty variant of filterByPrefix: the filter text may occur anywhere.
filterByPrefix_anywhere(names) ==
  IF filterPrefix # ""
  THEN SelectSeq(names, LAMBDA name : includes(name, filterPrefix))
  ELSE names

\* Filter scripts by prefix if --filter is used
filterByPrefix(names) ==
  IF filterPrefix # ""
  THEN SelectSeq(names, LAMBDA name : startsWith(name, filterPrefix))
  ELSE names

\* The initial value of existingLaunchJson
freshLaunchJson ==
  [type |-> "object", version |-> "0.2.0", confs |-> "array", configurations |-> <<>>]

\* existingLaunchJson.configurations || [] and the .map over it throw a TypeError
\* when existingLaunchJson is null or its configurations is a truthy non-array.
existingConfigsThrows(json) == json.type = "null" \/ json.confs = "other"

existingConfigs(json) == IF json.confs = "array" THEN json.configurations ELSE <<>>

configNameOf(scriptName) == packageManager \o ": " \o scriptName

makeConfig(scriptName) ==
  [ type |-> "node", request |-> "launch", name |-> configNameOf(scriptName),
    runtimeExecutable |-> packageManager, runtimeArgs |-> <<"run", scriptName>>,
    console |-> "integratedTerminal", internalConsoleOptions |-> "neverOpen",
    skipFiles |-> <<"<node_internals>/**">> ]

\* for (const scriptName of Object.keys(scripts)) { ... }
RECURSIVE buildConfigurations(_, _)
buildConfigurations(names, st) ==
  IF names = <<>> THEN st
  ELSE LET configName == configNameOf(Head(names))
           config == makeConfig(Head(names))
       IN  buildConfigurations(Tail(names),
             IF MapHas(st.configMap, configName)
             THEN [st EXCEPT !.configsToOverwrite =
                               Append(@, [name |-> configName, config |-> config])]
             ELSE [st EXCEPT !.configMap = MapSet(@, configName, config),
                             !.newConfigs = Append(@, configName)])

\* Faulty variant of needsPrompt: the question is put with zero conflicts too.
needsPrompt_always(toOverwrite) == Len(toOverwrite) >= 0 /\ ~autoYes

\* if (configsToOverwrite.length > 0 && !autoYes)
needsPrompt(toOverwrite) == Len(toOverwrite) > 0 /\ ~autoYes

\* resolve(answer.trim().toLowerCase() === 'y')
isYes(answer) == toLowerCase(trim(answer)) = "y"

\* Faulty variant of applyOverwrites: only the first pair is applied.
applyOverwrites_firstOnly(m, toOverwrite) ==
  IF toOverwrite = <<>> THEN m
  ELSE MapSet(m, Head(toOverwrite).name, Head(toOverwrite).config)

\* for (const [name, config] of configsToOverwrite) configMap.set(name, config)
RECURSIVE applyOverwrites(_, _)
applyOverwrites(m, toOverwrite) ==
  IF toOverwrite = <<>> THEN m
  ELSE applyOverwrites(MapSet(m, Head(toOverwrite).name, Head(toOverwrite).config),
                       Tail(toOverwrite))

mergedLaunchJson(m) ==
  [type |-> "object", version |-> "0.2.0", confs |-> "array", configurations |-> MapValues(m)]

\* ---------------------------------------------------------------- actions
Running == {"start", "load", "parse", "merge", "gate", "prompt", "resolved"}
Ended == {"done", "exit0", "exit1", "crashed"}

RunLocalsInit ==
  /\ pc = "start"
  /\ backup = NoFile
  /\ scripts = <<>>
  /\ originalContent = NoFile
  /\ existingLaunchJson = freshLaunchJson
  /\ configMap = <<>>
  /\ newConfigs = <<>>
  /\ configsToOverwrite = <<>>
  /\ overwriteConfirmed = FALSE
  /\ asked = 0
  /\ warned = FALSE
  /\ writes = 0
  /\ haltedAt = ""

Init ==
  /\ args \in Argvs
  /\ packageJson \in Manifests
  /\ launchJson \in LaunchFiles
  /\ vscodeDir \in (IF launchJson.kind = "absent" THEN BOOLEAN ELSE {TRUE})
  /\ run = "first"
  /\ preRun = launchJson
  /\ firstResult = NoFile
  /\ RunLocalsInit

\* package.json is read and the scripts are filtered; .vscode is created
ExtractScripts ==
  /\ pc = "start"
  /\ IF ~packageJson.exists
     THEN /\ pc' = "exit1"
          /\ UNCHANGED << scripts, vscodeDir >>
     ELSE LET matched == filterByPrefix(excludeSelf(packageJson.scripts))
          IN  /\ scripts' = matched
              /\ IF Len(matched) = 0
                 THEN pc' = "exit0" /\ UNCHANGED vscodeDir
                 ELSE pc' = "load" /\ vscodeDir' = TRUE
  /\ UNCHANGED << args, packageJson, launchJson, backup, originalContent,
                  existingLaunchJson, configMap, newConfigs, configsToOverwrite,
                  overwriteConfirmed, asked, warned, writes, haltedAt, run, preRun,
                  firstResult >>

\* an existing launch.json is read and copied to the backup path
Backup ==
  /\ pc = "load"
  /\ IF launchJson.kind = "absent"
     THEN /\ pc' = "merge"
          /\ UNCHANGED << originalContent, backup, launchJson, writes >>
     ELSE LET backupPath == getTimestampedBackupPath
              bytes == writeFileSync(readFileSync(launchJson))
          IN  /\ originalContent' = readFileSync(launchJson)
              /\ backup' = fileAfterWrite(getTimestampedBackupPath, backup, backupPath, bytes)
              /\ launchJson' = fileAfterWrite(launchJsonPath, launchJson, backupPath, bytes)
              /\ writes' = writes + (IF backupPath = launchJsonPath THEN 1 ELSE 0)
              /\ pc' = "parse"
  /\ UNCHANGED << args, packageJson, vscodeDir, scripts, existingLaunchJson,
                  configMap, newConfigs, configsToOverwrite, overwriteConfirmed, asked,
                  warned, haltedAt, run, preRun, firstResult >>

\* the text is parsed; a SyntaxError is caught and the default value stays
Parse ==
  /\ pc = "parse"
  /\ IF JSONparseThrows(originalContent)
     THEN warned' = TRUE /\ UNCHANGED existingLaunchJson
     ELSE existingLaunchJson' = JSONparse(originalContent) /\ UNCHANGED warned
  /\ pc' = "merge"
  /\ UNCHANGED << args, packageJson, launchJson, vscodeDir, backup, scripts,
                  originalContent, configMap, newConfigs, configsToOverwrite,
                  overwriteConfirmed, asked, writes, haltedAt, run, preRun, firstResult >>

\* the map is built from the existing entries and the derived ones are merged in
Merge ==
  /\ pc = "merge"
  /\ IF existingConfigsThrows(existingLaunchJson)
     THEN /\ pc' = "crashed"
          /\ UNCHANGED << configMap, newConfigs, configsToOverwrite >>
     ELSE LET st == buildConfigurations(scripts,
                      [ configMap |-> MapFromEntries(<<>>, existingConfigs(existingLaunchJson)),
                        newConfigs |-> <<>>, configsToOverwrite |-> <<>> ])
          IN  /\ configMap' = st.configMap
              /\ newConfigs' = st.newConfigs
              /\ configsToOverwrite' = st.configsToOverwrite
              /\ pc' = "gate"
  /\ UNCHANGED << args, packageJson, launchJson, vscodeDir, backup, scripts,
                  originalContent, existingLaunchJson, overwriteConfirmed, asked, warned,
                  writes, haltedAt, run, preRun, firstResult >>

\* the async block starts: it asks (promptYesNo puts the question unless autoYes)
\* or goes on with overwriteConfirmed = autoYes
Gate ==
  /\ pc = "gate"
  /\ IF needsPrompt(configsToOverwrite)
     THEN IF autoYes
          THEN overwriteConfirmed' = TRUE /\ pc' = "resolved" /\ UNCHANGED asked
          ELSE asked' = asked + 1 /\ pc' = "prompt" /\ overwriteConfirmed' = autoYes
     ELSE overwriteConfirmed' = autoYes /\ pc' = "resolved" /\ UNCHANGED asked
  /\ UNCHANGED << args, packageJson, launchJson, vscodeDir, backup, scripts,
                  originalContent, existingLaunchJson, configMap, newConfigs,
                  configsToOverwrite, warned, writes, haltedAt, run, preRun, firstResult >>

\* a line is typed at the prompt
Answer ==
  /\ pc = "prompt"
  /\ \E answer \in Answers : overwriteConfirmed' = isYes(answer)
  /\ pc' = "resolved"
  /\ UNCHANGED << args, packageJson, launchJson, vscodeDir, backup, scripts,
                  originalContent, existingLaunchJson, configMap, newConfigs,
                  configsToOverwrite, asked, warned, writes, haltedAt, run, preRun,
                  firstResult >>

\* accepted overwrites are applied and launch.json is written
Save ==
  /\ pc = "resolved"
  /\ configMap' = IF overwriteConfirmed
                  THEN applyOverwrites(configMap, configsToOverwrite)
                  ELSE configMap
  /\ launchJson' = writeFileSync(JSONstringify(mergedLaunchJson(configMap')))
  /\ writes' = writes + 1
  /\ pc' = "done"
  /\ UNCHANGED << args, packageJson, vscodeDir, backup, scripts, originalContent,
                  existingLaunchJson, newConfigs, configsToOverwrite, overwriteConfirmed,
                  asked, warned, haltedAt, run, preRun, firstResult >>

\* the process is killed (an interrupt signal; there are no cleanup handlers)
Interrupt ==
  /\ pc \in Running
  /\ haltedAt' = pc
  /\ pc' = "interrupted"
  /\ UNCHANGED << args, packageJson, launchJson, vscodeDir, backup, scripts,
                  originalContent, existingLaunchJson, configMap, newConfigs,
                  configsToOverwrite, overwriteConfirmed, asked, warned, writes, run,
                  preRun, firstResult >>

\* the tool is run again with the same arguments and the same package.json
Rerun ==
  /\ run = "first"
  /\ pc \in Ended
  /\ run' = "second"
  /\ preRun' = launchJson
  /\ firstResult' = launchJson
  /\ pc' = "start"
  /\ backup' = NoFile
  /\ scripts' = <<>>
  /\ originalContent' = NoFile
  /\ existingLaunchJson' = freshLaunchJson
  /\ configMap' = <<>>
  /\ newConfigs' = <<>>
  /\ configsToOverwrite' = <<>>
  /\ overwriteConfirmed' = FALSE
  /\ asked' = 0
  /\ warned' = FALSE
  /\ writes' = 0
  /\ haltedAt' = ""
  /\ UNCHANGED << args, packageJson, launchJson, vscodeDir >>

Next ==
  \/ ExtractScripts
  \/ Backup
  \/ Parse
  \/ Merge
  \/ Gate
  \/ Answer
  \/ Save
  \/ Interrupt
  \/ Rerun

Spec == Init /\ [][Next]_vars

\* ------------------------------------------------- vocabulary of the claims
IsPrefixOf(p, s) == \E n \in 0..Len(s) : SubSeq(s, 1, n) = p

ContainsText(s, t) == \E i \in 0..(Len(s) - Len(t)) : SubSeq(s, i + 1, i + Len(t)) = t

Names(entries) == { entries[i].name : i \in 1..Len(entries) }

\* The entry a name is bound to in a list: the last one carrying the name.
BoundTo(entries, name) ==
  entries[CHOOSE i \in 1..Len(entries) :
            entries[i].name = name /\ \A j \in (i + 1)..Len(entries) : entries[j].name # name]

\* The entries of a launch.json as a JSON reader sees them.
EntriesOf(file) == IF file.kind = "record" THEN readFileSync(file).configurations ELSE <<>>

PreRunEntries == EntriesOf(preRun)
WrittenEntries == EntriesOf(launchJson)

SelfReferential(s) == ContainsText(s, "generate-launch")

\* The manifest scripts an entry is due for.
EligibleScripts ==
  { s \in Range(packageJson.scripts) :
      ~SelfReferential(s) /\ (filterPrefix = "" \/ IsPrefixOf(filterPrefix, s)) }

IdentifyingName(s) == packageManager \o ": " \o s

\* The entry of section 6 of the specification for script s.
Synthesized(s) ==
  [ type |-> "node", request |-> "launch", name |-> IdentifyingName(s),
    runtimeExecutable |-> packageManager, runtimeArgs |-> <<"run", s>>,
    console |-> "integratedTerminal", internalConsoleOptions |-> "neverOpen",
    skipFiles |-> <<"<node_internals>/**">> ]

DerivedNames == { IdentifyingName(s) : s \in EligibleScripts }

ConflictingScripts == { s \in EligibleScripts : IdentifyingName(s) \in Names(PreRunEntries) }

\* The run has passed the merge (the derived entries are classified).
Merged ==
  \/ pc \in {"gate", "prompt", "resolved", "done"}
  \/ pc = "interrupted" /\ haltedAt \in {"gate", "prompt", "resolved"}

\* ------------------------------------------------------------------ claims

\* C1: conflict all-or-nothing.  When launch.json has been written and k >= 1
\* derived entries conflict with entries of the pre-run file, then after a "no"
\* every conflicting name is bound to its pre-run entry, and after a "yes" (or
\* with --yes, which always counts as "yes") every conflicting name is bound to
\* the newly synthesized entry.
C1_AllOrNothing ==
  pc = "done" =>
    LET old == PreRunEntries
        new == WrittenEntries
        conflicting == { s \in EligibleScripts : IdentifyingName(s) \in Names(old) }
    IN  /\ (autoYes /\ conflicting # {} => overwriteConfirmed)
        /\ \A s \in conflicting :
             /\ IdentifyingName(s) \in Names(new)
             /\ BoundTo(new, IdentifyingName(s)) =
                  IF overwriteConfirmed THEN Synthesized(s)
                  ELSE BoundTo(old, IdentifyingName(s))

\* C1 witness: two conflicts, one question, answered "no"; both names kept.
C1_Witness ==
  /\ pc = "done"
  /\ Cardinality(ConflictingScripts) >= 2
  /\ asked = 1
  /\ ~overwriteConfirmed

\* C2: a written launch.json has no two entries with the same identifying name.
C2_NoDuplicateNames ==
  pc = "done" =>
    \A i, j \in 1..Len(launchJson.configurations) :
      launchJson.configurations[i].name = launchJson.configurations[j].name => i = j

\* C2 witness: the pre-run file itself had two entries of one name.
C2_Witness ==
  /\ pc = "done"
  /\ \E i, j \in 1..Len(PreRunEntries) :
       i # j /\ PreRunEntries[i].name = PreRunEntries[j].name /\ PreRunEntries[i] # PreRunEntries[j]

\* The run has passed the backup step (lines 149-154).
PastBackup ==
  \/ pc \in {"parse", "merge", "gate", "prompt", "resolved", "done", "crashed"}
  \/ pc = "interrupted" /\ haltedAt \in {"parse", "merge", "gate", "prompt", "resolved"}

\* C3: backup round trip.  Once the run is past the backup step (so before the
\* parse attempt and before launch.json is overwritten), a launch.json that
\* existed before the run has a backup that is byte-identical to its pre-run
\* content; when none existed, no backup is written.
C3_BackupRoundTrip ==
  /\ PastBackup => backup = preRun
  /\ writes > 0 /\ preRun.kind # "absent" => backup = preRun

\* The pre-run text is no DebugConfigFile record.
NotARecord == preRun.kind \in {"notJSON", "null", "scalar", "badConfigs"}

\* C4: when the existing launch.json cannot be parsed as a DebugConfigFile
\* record, the run does not abort; it warns and goes on as if no file had
\* existed, so the written file holds exactly the synthesized entries, under
\* version "0.2.0".
C4_ParseFailureNonFatal ==
  NotARecord =>
    /\ pc # "crashed"
    /\ pc = "done" =>
         /\ warned
         /\ launchJson.version = "0.2.0"
         /\ Names(WrittenEntries) = DerivedNames
         /\ \A s \in EligibleScripts :
              BoundTo(WrittenEntries, IdentifyingName(s)) = Synthesized(s)

\* C5 as stated: no written launch.json has an entry under the identifying name
\* of a manifest script whose name contains generate-launch, whatever the
\* existing file held.
C5_NeverInOutput ==
  pc = "done" =>
    \A s \in Range(packageJson.scripts) :
      SelfReferential(s) => IdentifyingName(s) \notin Names(WrittenEntries)

\* C5, amended: for a manifest script whose name contains generate-launch no
\* entry is ever synthesized (it is not among the filtered scripts, not added and
\* not queued to overwrite); a written launch.json has an entry under its
\* identifying name only when the pre-run file had one, and then that very entry.
C5_NeverSynthesized ==
  \A s \in Range(packageJson.scripts) :
    SelfReferential(s) =>
      /\ s \notin Range(scripts)
      /\ IdentifyingName(s) \notin Range(newConfigs)
      /\ \A i \in 1..Len(configsToOverwrite) : configsToOverwrite[i].name # IdentifyingName(s)
      /\ pc = "done" =>
           LET old == PreRunEntries
               new == WrittenEntries
           IN  IdentifyingName(s) \in Names(new) =>
                 /\ IdentifyingName(s) \in Names(old)
                 /\ BoundTo(new, IdentifyingName(s)) = BoundTo(old, IdentifyingName(s))

\* C5 witness: the manifest has dev:generate-launch, which the filter "dev"
\* would let through, and the written file has no entry for it.
C5_Witness ==
  /\ pc = "done"
  /\ filterPrefix = "dev"
  /\ "dev:generate-launch" \in Range(packageJson.scripts)
  /\ IdentifyingName("dev:generate-launch") \notin Names(WrittenEntries)
  /\ Len(newConfigs) >= 1

\* The scripts for which an entry has been synthesized: those of the entries
\* added to the map and of the entries queued to overwrite.
SynthesizedScripts ==
  { MapGet(configMap, newConfigs[i]).runtimeArgs[2] : i \in 1..Len(newConfigs) } \cup
  { configsToOverwrite[i].config.runtimeArgs[2] : i \in 1..Len(configsToOverwrite) }

\* C6: the scripts for which an entry is synthesized are exactly the manifest
\* scripts whose name starts with filterPrefix (every script when filterPrefix is
\* empty) and does not contain generate-launch; the run stops with status 0
\* before synthesizing anything exactly when there is no such script.
C6_ExactlyTheFiltered ==
  /\ Merged => SynthesizedScripts = EligibleScripts
  /\ pc = "exit0" => EligibleScripts = {}
  /\ Merged => EligibleScripts # {} /\ Range(scripts) = EligibleScripts

\* C6 witness: with --filter dev the manifest has dev and predev; the merge is
\* done and only dev got an entry.
C6_Witness ==
  /\ pc = "gate"
  /\ filterPrefix = "dev"
  /\ {"dev", "predev"} \subseteq Range(packageJson.scripts)
  /\ SynthesizedScripts = {"dev"}

\* C7: idempotence.  In a second run with --yes, the same manifest and the same
\* flags, launch.json stays what the first run left (same entries, same order,
\* same field values), and no entry is added as new.
C7_Idempotent ==
  run = "second" /\ autoYes => launchJson = firstResult /\ newConfigs = <<>>

\* C7 witness: the second run with --yes has overwritten two entries and saved.
C7_Witness ==
  /\ run = "second"
  /\ autoYes
  /\ pc = "done"
  /\ Len(configsToOverwrite) >= 2

\* C8: at most one question per run; it has been put exactly once when the gate
\* has been passed with at least one conflict and without --yes, and never
\* otherwise: with --yes or with zero conflicts the run is never at the prompt.
C8_SingleQuestion ==
  /\ asked <= 1
  /\ pc \in {"start", "load", "parse", "merge", "gate", "exit0", "exit1", "crashed"} => asked = 0
  /\ pc = "prompt" => asked = 1 /\ ConflictingScripts # {} /\ ~autoYes
  /\ pc \in {"resolved", "done"} =>
       asked = (IF ConflictingScripts # {} /\ ~autoYes THEN 1 ELSE 0)

\* C8 witness: one question covered two conflicts.
C8_Witness ==
  /\ pc = "done"
  /\ asked = 1
  /\ Cardinality(ConflictingScripts) >= 2
  /\ overwriteConfirmed

\* C9: launch.json is written at most once per run and only after the gate has
\* resolved: before that, at the pending prompt included, and after an
\* interrupt at any of those points, it holds its pre-run content.
C9_WriteAfterGate ==
  /\ writes <= 1
  /\ pc # "done" => writes = 0 /\ launchJson = preRun
  /\ pc = "done" => writes = 1

\* C9 witness: an interrupt at the pending prompt; the existing file is intact.
C9_Witness ==
  /\ pc = "interrupted"
  /\ haltedAt = "prompt"
  /\ preRun.kind = "record"
  /\ launchJson = preRun

\* C10: for a pre-run file whose entries have pairwise distinct names, the
\* written list starts with the pre-run entries in their order, each under its
\* name, those whose name is no derived name unchanged in every field, whatever
\* the answer; the newly added entries follow them.
C10_ExistingPreserved ==
  pc = "done" =>
    LET old == PreRunEntries
        new == WrittenEntries
        derived == DerivedNames
    IN  Cardinality(Names(old)) = Len(old) =>
          /\ Len(new) = Len(old) + Cardinality(derived \ Names(old))
          /\ \A i \in 1..Len(old) :
               /\ new[i].name = old[i].name
               /\ old[i].name \notin derived => new[i] = old[i]
          /\ { new[i].name : i \in (Len(old) + 1)..Len(new) } = derived \ Names(old)

\* C10 witness: two existing entries, the first overwritten and the second not
\* derived, and one entry added.
C10_Witness ==
  /\ pc = "done"
  /\ Len(PreRunEntries) = 2
  /\ PreRunEntries[1].name \in DerivedNames
  /\ PreRunEntries[2].name \notin DerivedNames
  /\ overwriteConfirmed
  /\ Len(newConfigs) >= 1

====
